---- MODULE Spec2Model ----
(***************************************************************************)
(* Model of dnet/optimizers.py: the Optimizer base class and the SGD and   *)
(* Momentum training loops.                                                *)
(*                                                                         *)
(* Floating point numbers are modelled as exact rationals <<num, den>>     *)
(* (den > 0, lowest terms); tensors as records [r, c, at] holding the      *)
(* shape and the entries.  The user-supplied callables (loss, accuracy,    *)
(* the layers' activation) and the jax gradient transform are fixed to     *)
(* concrete stand-ins, documented where they are defined.                  *)
(*                                                                         *)
(* The constructors check no hyperparameter and init_network_params checks *)
(* no shape, so Init ranges over invalid configurations as well: epochs    *)
(* <= 0, lr = 0, beta > 1, no layers, a dataset of 0 features.  beta = 1   *)
(* (a division by zero in 1 - beta ** batch_num) is not among the inputs.  *)
(***************************************************************************)
EXTENDS Integers, Sequences, FiniteSets, TLC

(***************************************************************************)
(* Bounds of the model.                                                    *)
(***************************************************************************)
\* number of train calls made on the one optimizer instance
MaxCalls == 2

\* parameter updates per train call of a network of two or more layers under a
\* loss whose gradient depends on the parameters: there the parameters grow
\* geometrically, and the exact arithmetic must stay within TLC's integers
MaxDeepUpdates == 1

(***************************************************************************)
(* Exact rational arithmetic (the float arithmetic of the update rules).   *)
(***************************************************************************)
Abs(x) == IF x < 0 THEN -x ELSE x

RECURSIVE GCD(_, _)
GCD(a, b) == IF b = 0 THEN a ELSE GCD(b, a % b)

Norm(n, d) ==
    LET s == IF d < 0 THEN -1 ELSE 1
        g == GCD(Abs(n), Abs(d))
    IN  <<(s * n) \div g, (s * d) \div g>>

R(n) == <<n, 1>>
Zero == <<0, 1>>
One == <<1, 1>>

RNeg(p) == <<-p[1], p[2]>>

RAdd(p, q) ==
    LET g == GCD(p[2], q[2])
    IN  Norm(p[1] * (q[2] \div g) + q[1] * (p[2] \div g), (p[2] \div g) * q[2])

RSub(p, q) == RAdd(p, RNeg(q))

RMul(p, q) ==
    LET g1 == GCD(Abs(p[1]), q[2])
        g2 == GCD(Abs(q[1]), p[2])
    IN  Norm((p[1] \div g1) * (q[1] \div g2), (p[2] \div g2) * (q[2] \div g1))

\* q is not zero
RDiv(p, q) == RMul(p, Norm(q[2], q[1]))

RECURSIVE RPow(_, _)
RPow(p, k) == IF k = 0 THEN One ELSE RMul(p, RPow(p, k - 1))

RLeq(p, q) == RSub(p, q)[1] <= 0

RAbs(p) == <<Abs(p[1]), p[2]>>

(***************************************************************************)
(* Tensors: two-dimensional arrays of rationals.                           *)
(***************************************************************************)
Idx(r, c) == (1..r) \X (1..c)

\* f itself; the comparison makes TLC tabulate f once instead of re-evaluating
\* its defining expression at every application
Eager(f) == IF f = f THEN f ELSE f

zeros(r, c) == [r |-> r, c |-> c, at |-> Eager([ij \in Idx(r, c) |-> Zero])]

zeros_like(A) == zeros(A.r, A.c)

ones_like(A) == [r |-> A.r, c |-> A.c, at |-> Eager([ij \in Idx(A.r, A.c) |-> One])]

\* k * A, A + B, A - B, 1 - A and A / k, elementwise (k a scalar)
Scale(k, A) == [r |-> A.r, c |-> A.c, at |-> Eager([ij \in Idx(A.r, A.c) |-> RMul(k, A.at[ij])])]

Add(A, B) == [r |-> A.r, c |-> A.c, at |-> Eager([ij \in Idx(A.r, A.c) |-> RAdd(A.at[ij], B.at[ij])])]

Sub(A, B) == [r |-> A.r, c |-> A.c, at |-> Eager([ij \in Idx(A.r, A.c) |-> RSub(A.at[ij], B.at[ij])])]

OneMinus(A) == [r |-> A.r, c |-> A.c, at |-> Eager([ij \in Idx(A.r, A.c) |-> RSub(One, A.at[ij])])]

DivScalar(A, k) == [r |-> A.r, c |-> A.c, at |-> Eager([ij \in Idx(A.r, A.c) |-> RDiv(A.at[ij], k)])]

RECURSIVE SumTo(_, _)
SumTo(k, f) == IF k = 0 THEN Zero ELSE RAdd(SumTo(k - 1, f), f[k])

\* tensor.dot(A, B)
dot(A, B) ==
    [r |-> A.r, c |-> B.c,
     at |-> Eager([ij \in Idx(A.r, B.c) |->
                SumTo(A.c, [k \in 1..A.c |-> RMul(A.at[<<ij[1], k>>], B.at[<<k, ij[2]>>])])])]

transpose(A) == [r |-> A.c, c |-> A.r, at |-> Eager([ij \in Idx(A.c, A.r) |-> A.at[<<ij[2], ij[1]>>]])]

\* Z + b with b of shape (units, 1) broadcast over the columns of Z
AddBias(Z, b) ==
    [r |-> Z.r, c |-> Z.c, at |-> Eager([ij \in Idx(Z.r, Z.c) |-> RAdd(Z.at[ij], b.at[<<ij[1], 1>>])])]

\* sum over the columns of each row, shape (r, 1)
RowSums(A) ==
    [r |-> A.r, c |-> 1,
     at |-> Eager([ij \in Idx(A.r, 1) |-> SumTo(A.c, [k \in 1..A.c |-> A.at[<<ij[1], k>>]])])]

SumAll(A) == SumTo(A.r, [i \in 1..A.r |-> SumTo(A.c, [k \in 1..A.c |-> A.at[<<i, k>>]])])

\* columns lo..hi of A
Columns(A, lo, hi) ==
    [r |-> A.r, c |-> hi - lo + 1,
     at |-> Eager([ij \in Idx(A.r, hi - lo + 1) |-> A.at[<<ij[1], ij[2] + lo - 1>>]])]

IsZeroTensor(A) == \A ij \in Idx(A.r, A.c) : A.at[ij] = Zero

(***************************************************************************)
(* State.  The attributes of the optimizer object keep their names; pc,    *)
(* epoch, batch_idx, loss and batch_num are the position and the locals of *)
(* the train call in progress; inputs and outputs are its arguments.       *)
(***************************************************************************)
VARIABLES cls, layers, loss_fn, epochs, lr, bs, beta, inputs, outputs,
          network_params, momentum_params, cost, accuracy,
          pc, epoch, batch_idx, loss, batch_num, calls

config == <<cls, layers, loss_fn, epochs, lr, bs, beta, inputs, outputs>>

vars == <<cls, layers, loss_fn, epochs, lr, bs, beta, inputs, outputs,
          network_params, momentum_params, cost, accuracy,
          pc, epoch, batch_idx, loss, batch_num, calls>>

(***************************************************************************)
(* Inputs the caller chooses.  The constructor checks none of them.        *)
(***************************************************************************)
\* layers: the units of each FC layer, in order
Topologies == {<< >>, <<1>>, <<2>>, <<2, 1>>}

EpochChoices == {-1, 0, 1, 2}

LearningRates == {Zero, One}

Betas == {Zero, <<1, 2>>, <<2, 1>>}

\* "lin": loss = sum(predictions - outputs); "labels": loss = sum(outputs),
\* which does not depend on the parameters, so its gradient is all-zero
Losses == {"lin", "labels"}

\* (feature count, example count, batch size) of the dataset and the iterator
Shapes == {<<0, 1, 1>>, <<1, 1, 1>>, <<1, 2, 1>>, <<2, 2, 2>>, <<1, 3, 1>>, <<2, 3, 2>>}

DataX(n, m) == [r |-> n, c |-> m, at |-> Eager([ij \in Idx(n, m) |-> R((ij[1] + ij[2]) % 2)])]

DataY(u, m) == [r |-> u, c |-> m, at |-> Eager([ij \in Idx(u, m) |-> R(ij[1] + (ij[2] % 2) - 1)])]

\* rows of the outputs: the units of the last layer (the input rows without layers)
OutUnits(ls, n) == IF ls = << >> THEN n ELSE ls[Len(ls)]

(***************************************************************************)
(* Collaborators outside optimizers.py.                                    *)
(***************************************************************************)
\* FC.activation: the linear activation
activation(z) == z

\* BatchIterator(batch_size=bs)(inputs, outputs): consecutive slices of bs examples
NumBatches == (inputs.c + bs - 1) \div bs

Batch(j) ==
    LET lo == (j - 1) * bs + 1
        hi == IF j * bs < inputs.c THEN j * bs ELSE inputs.c
    IN  [inputs |-> Columns(inputs, lo, hi), outputs |-> Columns(outputs, lo, hi)]

\* random.normal(subkey, shape) for the subkey of layer i: the sample at (r, c)
normal(i, r, c) == R(100 * (((2 * i + r + 3 * c) % 3) - 1))

\* self.loss_fn and self.accuracy_fn
Loss(predictions, outs) ==
    IF loss_fn = "lin" THEN RSub(SumAll(predictions), SumAll(outs)) ELSE SumAll(outs)

Accuracy(predictions, outs) == RAdd(SumAll(predictions), SumAll(outs))

\* derivative of Loss with respect to the predictions
LossGrad(predictions, outs) ==
    IF loss_fn = "lin" THEN ones_like(predictions) ELSE zeros_like(predictions)

(***************************************************************************)
(* Optimizer                                                               *)
(***************************************************************************)
Init ==
    /\ cls \in {"SGD", "Momentum"}
    /\ layers \in Topologies
    /\ loss_fn \in Losses
    /\ epochs \in EpochChoices
    /\ lr \in LearningRates
    /\ beta \in IF cls = "Momentum" THEN Betas ELSE {Zero}
    /\ \E s \in Shapes :
          /\ bs = s[3]
          /\ inputs = DataX(s[1], s[2])
          /\ outputs = DataY(OutUnits(layers, s[1]), s[2])
    /\ (Len(layers) >= 2 /\ loss_fn = "lin") => epochs * NumBatches <= MaxDeepUpdates
    /\ network_params = << >>
    /\ momentum_params = << >>
    /\ cost = << >>
    /\ accuracy = << >>
    /\ pc = "idle"
    /\ epoch = 0
    /\ batch_idx = 0
    /\ loss = Zero
    /\ batch_num = 0
    /\ calls = 0

\* the {"w", "b"} entry init_network_params appends for layer i
InitLayer(i, input_shape) ==
    LET units == layers[i]
        prev == IF i # 1 THEN layers[i - 1] ELSE input_shape[1]
    IN  [w |-> [r |-> units, c |-> prev,
                at |-> Eager([ij \in Idx(units, prev) |-> RMul(normal(i, ij[1], ij[2]), <<1, 100>>)])],
         b |-> zeros(units, 1)]

init_network_params(params, input_shape) ==
    params \o [i \in 1..Len(layers) |-> InitLayer(i, input_shape)]

\* the activations a_0 = ins, a_1, ..., a_L of the forward pass, from layer i on
RECURSIVE Activations(_, _, _)
Activations(params, a, i) ==
    IF i > Len(layers) THEN <<a>>
    ELSE <<a>> \o Activations(params, activation(AddBias(dot(params[i].w, a), params[i].b)), i + 1)

compute_predictions(params, ins) ==
    LET acts == Activations(params, ins, 1) IN acts[Len(acts)]

compute_cost(params, ins, outs) == Loss(compute_predictions(params, ins), outs)

compute_accuracy(predictions, outs) == Accuracy(predictions, outs)

evaluate(ins, outs) == compute_accuracy(compute_predictions(network_params, ins), outs)

\* d cost / d a_i, for the linear activation
RECURSIVE Delta(_, _, _)
Delta(params, dOut, i) ==
    IF i = Len(layers) THEN dOut
    ELSE dot(transpose(params[i + 1].w), Delta(params, dOut, i + 1))

\* jit(grad(compute_cost)): one {"w", "b"} entry per entry of params; an entry
\* the forward pass does not read has an all-zero gradient
grad_fn(params, ins, outs) ==
    LET acts == Activations(params, ins, 1)
        dOut == LossGrad(acts[Len(acts)], outs)
    IN  [i \in 1..Len(params) |->
            IF i <= Len(layers)
            THEN [w |-> dot(Delta(params, dOut, i), transpose(acts[i])),
                  b |-> RowSums(Delta(params, dOut, i))]
            ELSE [w |-> zeros_like(params[i].w), b |-> zeros_like(params[i].b)]]

(***************************************************************************)
(* The update rules                                                        *)
(***************************************************************************)
\* param -= self.lr * g
Descend(param, g) == Sub(param, Scale(lr, g))

\* variant: the conventional moving average, beta * v + (1 - beta) * g, bias-corrected
Velocity_Conventional(v, g, t) ==
    DivScalar(Add(Scale(beta, v), Scale(RSub(One, beta), g)), RSub(One, RPow(beta, t)))

\* variant: no bias correction
Velocity_Uncorrected(v, g, t) == Add(Scale(beta, v), OneMinus(Scale(beta, g)))

\* (self.beta * v + (1 - self.beta * g)) / (1 - self.beta ** t)
Velocity(v, g, t) ==
    DivScalar(Add(Scale(beta, v), OneMinus(Scale(beta, g))), RSub(One, RPow(beta, t)))

\* variant: weight decay added to the gradient
SGDUpdate_WeightDecay(params, grads) ==
    [i \in 1..Len(grads) |->
        [w |-> Descend(params[i].w, Add(grads[i].w, params[i].w)),
         b |-> Descend(params[i].b, Add(grads[i].b, params[i].b))]]

\* SGD: for i, layer_params in enumerate(grads): network_params[i] -= lr * grads[i]
SGDUpdate(params, grads) ==
    [i \in 1..Len(grads) |->
        [w |-> Descend(params[i].w, grads[i].w), b |-> Descend(params[i].b, grads[i].b)]]

\* Momentum: the velocities after the loop over enumerate(grads)
MomentumVelocities(velocities, grads, t) ==
    [i \in 1..Len(grads) |->
        [w |-> Velocity(velocities[i].w, grads[i].w, t),
         b |-> Velocity(velocities[i].b, grads[i].b, t)]]

\* Momentum: the parameters after the loop, each decreased by lr times its new velocity
MomentumUpdate(params, velocities) ==
    [i \in 1..Len(velocities) |->
        [w |-> Descend(params[i].w, velocities[i].w),
         b |-> Descend(params[i].b, velocities[i].b)]]

\* batch_num += 1
NextBatchNum(t) == t + 1

(***************************************************************************)
(* SGD.train and Momentum.train, one action per step of the loops          *)
(***************************************************************************)
SGDTrainEnter ==
    /\ cls = "SGD"
    /\ pc = "idle"
    /\ calls < MaxCalls
    /\ calls' = calls + 1
    /\ network_params' = init_network_params(network_params, <<inputs.r, inputs.c>>)
    /\ epoch' = 0
    /\ pc' = "epoch"
    /\ UNCHANGED <<config, momentum_params, cost, accuracy, batch_idx, loss, batch_num>>

MomentumTrainEnter ==
    /\ cls = "Momentum"
    /\ pc = "idle"
    /\ calls < MaxCalls
    /\ calls' = calls + 1
    /\ network_params' = init_network_params(network_params, <<inputs.r, inputs.c>>)
    /\ momentum_params' =
          [i \in 1..Len(network_params') |->
              [w |-> zeros_like(network_params'[i].w), b |-> zeros_like(network_params'[i].b)]]
    /\ epoch' = 0
    /\ pc' = "epoch"
    /\ UNCHANGED <<config, cost, accuracy, batch_idx, loss, batch_num>>

SGDEpochBegin ==
    /\ cls = "SGD"
    /\ pc = "epoch"
    /\ epoch < epochs
    /\ loss' = Zero
    /\ batch_idx' = 1
    /\ pc' = "batch"
    /\ UNCHANGED <<config, network_params, momentum_params, cost, accuracy, epoch, batch_num,
                   calls>>

\* variant: batch_num is set once per train call, not once per epoch
MomentumEpochBegin_NoReset ==
    /\ cls = "Momentum"
    /\ pc = "epoch"
    /\ epoch < epochs
    /\ loss' = Zero
    /\ batch_num' = IF epoch = 0 THEN 1 ELSE batch_num
    /\ batch_idx' = 1
    /\ pc' = "batch"
    /\ UNCHANGED <<config, network_params, momentum_params, cost, accuracy, epoch, calls>>

MomentumEpochBegin ==
    /\ cls = "Momentum"
    /\ pc = "epoch"
    /\ epoch < epochs
    /\ loss' = Zero
    /\ batch_num' = 1
    /\ batch_idx' = 1
    /\ pc' = "batch"
    /\ UNCHANGED <<config, network_params, momentum_params, cost, accuracy, epoch, calls>>

\* variant: the cost of a batch is taken before its update
SGDBatch_CostBeforeUpdate ==
    /\ cls = "SGD"
    /\ pc = "batch"
    /\ batch_idx <= NumBatches
    /\ LET batch == Batch(batch_idx)
           grads == grad_fn(network_params, batch.inputs, batch.outputs)
       IN  /\ network_params' = SGDUpdate(network_params, grads)
           /\ loss' = RAdd(loss, compute_cost(network_params, batch.inputs, batch.outputs))
    /\ batch_idx' = batch_idx + 1
    /\ UNCHANGED <<config, momentum_params, cost, accuracy, pc, epoch, batch_num, calls>>

SGDBatch ==
    /\ cls = "SGD"
    /\ pc = "batch"
    /\ batch_idx <= NumBatches
    /\ LET batch == Batch(batch_idx)
           grads == grad_fn(network_params, batch.inputs, batch.outputs)
       IN  /\ network_params' = SGDUpdate(network_params, grads)
           /\ loss' = RAdd(loss, compute_cost(network_params', batch.inputs, batch.outputs))
    /\ batch_idx' = batch_idx + 1
    /\ UNCHANGED <<config, momentum_params, cost, accuracy, pc, epoch, batch_num, calls>>

MomentumBatch ==
    /\ cls = "Momentum"
    /\ pc = "batch"
    /\ batch_idx <= NumBatches
    /\ LET batch == Batch(batch_idx)
           grads == grad_fn(network_params, batch.inputs, batch.outputs)
       IN  /\ momentum_params' = MomentumVelocities(momentum_params, grads, batch_num)
           /\ network_params' = MomentumUpdate(network_params, momentum_params')
           /\ batch_num' = NextBatchNum(batch_num)
           /\ loss' = RAdd(loss, compute_cost(network_params', batch.inputs, batch.outputs))
    /\ batch_idx' = batch_idx + 1
    /\ UNCHANGED <<config, cost, accuracy, pc, epoch, calls>>

\* variant: the history is overwritten, not appended to
AppendCost_Overwrite ==
    /\ pc = "batch"
    /\ batch_idx > NumBatches
    /\ cost' = <<loss>>
    /\ pc' = "accuracy"
    /\ UNCHANGED <<config, network_params, momentum_params, accuracy, epoch, batch_idx, loss,
                   batch_num, calls>>

\* self.cost.append(loss), once the iterator is exhausted
AppendCost ==
    /\ pc = "batch"
    /\ batch_idx > NumBatches
    /\ cost' = Append(cost, loss)
    /\ pc' = "accuracy"
    /\ UNCHANGED <<config, network_params, momentum_params, accuracy, epoch, batch_idx, loss,
                   batch_num, calls>>

\* self.accuracy.append(self.evaluate(inputs, outputs)); the next epoch follows
AppendAccuracy ==
    /\ pc = "accuracy"
    /\ accuracy' = Append(accuracy, evaluate(inputs, outputs))
    /\ epoch' = epoch + 1
    /\ pc' = "epoch"
    /\ UNCHANGED <<config, network_params, momentum_params, cost, batch_idx, loss, batch_num,
                   calls>>

\* range(self.epochs) is exhausted: train returns and its locals are gone
TrainReturn ==
    /\ pc = "epoch"
    /\ epoch >= epochs
    /\ pc' = "idle"
    /\ epoch' = 0
    /\ batch_idx' = 0
    /\ loss' = Zero
    /\ batch_num' = 0
    /\ UNCHANGED <<config, network_params, momentum_params, cost, accuracy, calls>>

Next ==
    \/ SGDTrainEnter
    \/ MomentumTrainEnter
    \/ SGDEpochBegin
    \/ MomentumEpochBegin
    \/ SGDBatch
    \/ MomentumBatch
    \/ AppendCost
    \/ AppendAccuracy
    \/ TrainReturn

Spec == Init /\ [][Next]_vars

(***************************************************************************)
(* Vocabulary of the properties                                            *)
(***************************************************************************)
\* the hyperparameters the specification calls valid
ValidBeta == RLeq(Zero, beta) /\ ~RLeq(One, beta)

ValidConfig ==
    /\ epochs > 0
    /\ ~RLeq(lr, Zero)
    /\ cls = "Momentum" => ValidBeta

\* a layer sequence and a dataset the specification accepts
ValidShape == layers # << >> /\ inputs.r > 0

\* a batch of the iterator is about to be processed
AtBatch == pc = "batch" /\ batch_idx <= NumBatches

\* the gradient of the batch about to be processed
CurrentGrads ==
    grad_fn(network_params, Batch(batch_idx).inputs, Batch(batch_idx).outputs)

\* the gradient provider returns an all-zero gradient for every batch
ZeroGradients ==
    \A j \in 1..NumBatches :
        \A i \in 1..Len(network_params) :
            LET g == grad_fn(network_params, Batch(j).inputs, Batch(j).outputs)[i]
            IN  IsZeroTensor(g.w) /\ IsZeroTensor(g.b)

\* the entries init_network_params creates for the layers
FreshParams == [i \in 1..Len(layers) |-> InitLayer(i, <<inputs.r, inputs.c>>)]

\* at least one batch of the train call in progress has been processed
SomeBatchDone == pc # "idle" /\ (epoch >= 1 \/ batch_idx >= 2 \/ pc = "accuracy")

(***************************************************************************)
(* C1.  After every completed train call on an optimizer constructed (with *)
(* valid hyperparameters) with epochs = E, cost and accuracy both have     *)
(* length E, also after a second or later call on the same instance.       *)
(***************************************************************************)
C1_HistoryLengthIsEpochs ==
    (ValidConfig /\ ValidShape /\ pc = "idle" /\ calls >= 1) =>
        (Len(cost) = epochs /\ Len(accuracy) = epochs)

(***************************************************************************)
(* C2, as claimed.  The bias-correction exponent is the number of the      *)
(* batch counted across all epochs of the train call: going into batch     *)
(* batch_idx of epoch number epoch (from 0) it is epoch * B + batch_idx.   *)
(***************************************************************************)
C2_ExponentCountsAllBatches ==
    (ValidConfig /\ ValidShape /\ cls = "Momentum" /\ pc = "batch") =>
        batch_num = epoch * NumBatches + batch_idx

(***************************************************************************)
(* C2, amended.  The exponent starts at 1 in every epoch and increments by *)
(* one after every batch of that epoch: going into the k-th batch of any   *)
(* epoch it is k, the k-th batch computes its velocities with exponent k,  *)
(* and after the last of B batches it is B + 1.                            *)
(***************************************************************************)
C2_ExponentCountsBatchesOfEpoch ==
    /\ []((cls = "Momentum" /\ pc = "batch") => batch_num = batch_idx)
    /\ [][(cls = "Momentum" /\ AtBatch) =>
            /\ momentum_params' = MomentumVelocities(momentum_params, CurrentGrads, batch_idx)
            /\ batch_num' = batch_idx + 1]_vars

\* second epoch, three batches processed: t = 4
C2_Witness ==
    /\ cls = "Momentum"
    /\ pc = "batch"
    /\ epoch = 1
    /\ NumBatches = 3
    /\ batch_idx = 4
    /\ batch_num = 4

(***************************************************************************)
(* C3.  An optimizer with invalid hyperparameters (epochs <= 0, lr <= 0,   *)
(* beta outside [0, 1)) never gets to train: it never initializes          *)
(* parameters, never processes a batch and never appends to the history.   *)
(***************************************************************************)
C3_InvalidConfigNeverTrains ==
    (~ValidConfig /\ ValidShape) =>
        /\ network_params = << >>
        /\ pc # "batch"
        /\ cost = << >>
        /\ accuracy = << >>

(***************************************************************************)
(* C4.  The loss accumulator is zeroed when an epoch begins; each batch    *)
(* adds the cost of that batch under the parameters as they are right      *)
(* after its update; the value appended to cost is the accumulator after   *)
(* the last batch.  With a single batch the appended value is the cost of  *)
(* the dataset under the parameters after the update.                      *)
(***************************************************************************)
C4_EpochCostIsPostUpdateSum ==
    /\ [](pc = "accuracy" /\ NumBatches = 1 =>
            cost[Len(cost)] = compute_cost(network_params, inputs, outputs))
    /\ [][/\ (pc = "epoch" /\ pc' = "batch") => loss' = Zero
          /\ AtBatch =>
                /\ loss' = RAdd(loss, compute_cost(network_params', Batch(batch_idx).inputs,
                                                   Batch(batch_idx).outputs))
                /\ batch_idx' = batch_idx + 1
          /\ (pc = "batch" /\ ~AtBatch) =>
                /\ cost' = Append(cost, loss)
                /\ network_params' = network_params]_vars

\* second epoch of a run whose parameters move, several batches, cost just appended
C4_Witness ==
    /\ pc = "accuracy"
    /\ epoch = 1
    /\ NumBatches >= 2
    /\ loss_fn = "lin"
    /\ lr # Zero
    /\ Len(cost) = 2
    /\ cost[2] = loss
    /\ cost[2] # cost[1]

(***************************************************************************)
(* C5.  Momentum: the velocities are all-zero when the epoch loop of a     *)
(* train call is entered and change only when a batch is processed; a      *)
(* batch replaces, for every layer i and for W and b alike, the velocity   *)
(* v by (beta * v + (1 - beta * g)) / (1 - beta^t), g the gradient at the  *)
(* parameters before the update, and then decreases the parameter by lr    *)
(* times the new velocity.                                                 *)
(***************************************************************************)
C5_MomentumRule ==
    /\ []((cls = "Momentum" /\ pc = "epoch" /\ epoch = 0) =>
            /\ Len(momentum_params) = Len(network_params)
            /\ \A i \in 1..Len(momentum_params) :
                  /\ momentum_params[i].w = zeros_like(network_params[i].w)
                  /\ momentum_params[i].b = zeros_like(network_params[i].b))
    /\ [][(cls = "Momentum" /\ pc # "idle") =>
            IF AtBatch
            THEN \A i \in 1..Len(layers) :
                    /\ \A ij \in Idx(network_params[i].w.r, network_params[i].w.c) :
                          /\ momentum_params'[i].w.at[ij] =
                                RDiv(RAdd(RMul(beta, momentum_params[i].w.at[ij]),
                                          RSub(One, RMul(beta, CurrentGrads[i].w.at[ij]))),
                                     RSub(One, RPow(beta, batch_num)))
                          /\ network_params'[i].w.at[ij] =
                                RSub(network_params[i].w.at[ij],
                                     RMul(lr, momentum_params'[i].w.at[ij]))
                    /\ \A ij \in Idx(network_params[i].b.r, network_params[i].b.c) :
                          /\ momentum_params'[i].b.at[ij] =
                                RDiv(RAdd(RMul(beta, momentum_params[i].b.at[ij]),
                                          RSub(One, RMul(beta, CurrentGrads[i].b.at[ij]))),
                                     RSub(One, RPow(beta, batch_num)))
                          /\ network_params'[i].b.at[ij] =
                                RSub(network_params[i].b.at[ij],
                                     RMul(lr, momentum_params'[i].b.at[ij]))
            ELSE momentum_params' = momentum_params]_vars

\* second epoch, a batch already processed in it: the velocity has persisted
C5_Witness ==
    /\ cls = "Momentum"
    /\ pc = "batch"
    /\ epoch = 1
    /\ batch_idx = 2
    /\ NumBatches >= 2
    /\ loss_fn = "lin"
    /\ layers = <<2>>
    /\ inputs.r = 2
    /\ beta = <<1, 2>>
    /\ lr = One
    /\ ~IsZeroTensor(momentum_params[1].w)

(***************************************************************************)
(* C6, as claimed.  With an all-zero gradient for every batch (and a valid *)
(* beta), from the first batch on no component of a velocity grows in      *)
(* magnitude when a further batch is processed.                            *)
(***************************************************************************)
C6_VelocityDecays ==
    [][(cls = "Momentum" /\ ValidBeta /\ ZeroGradients /\ AtBatch /\ SomeBatchDone) =>
          \A i \in 1..Len(momentum_params) :
              /\ \A ij \in Idx(momentum_params[i].w.r, momentum_params[i].w.c) :
                    RLeq(RAbs(momentum_params'[i].w.at[ij]), RAbs(momentum_params[i].w.at[ij]))
              /\ \A ij \in Idx(momentum_params[i].b.r, momentum_params[i].b.c) :
                    RLeq(RAbs(momentum_params'[i].b.at[ij]), RAbs(momentum_params[i].b.at[ij]))]_vars

(***************************************************************************)
(* C6, amended.  With an all-zero gradient for every batch, a batch takes  *)
(* every component v of a velocity to (beta * v + 1) / (1 - beta^t),       *)
(* whatever the parameters and the data; the velocity does not decay       *)
(* toward zero: with 0 <= beta < 1 every component is at least 1 once a    *)
(* batch has been processed.                                               *)
(***************************************************************************)
C6_VelocityStaysAboveOne ==
    /\ []((cls = "Momentum" /\ ValidBeta /\ ZeroGradients /\ SomeBatchDone) =>
            \A i \in 1..Len(momentum_params) :
                /\ \A ij \in Idx(momentum_params[i].w.r, momentum_params[i].w.c) :
                      RLeq(One, momentum_params[i].w.at[ij])
                /\ \A ij \in Idx(momentum_params[i].b.r, momentum_params[i].b.c) :
                      RLeq(One, momentum_params[i].b.at[ij]))
    /\ [][(cls = "Momentum" /\ ZeroGradients /\ AtBatch) =>
            \A i \in 1..Len(momentum_params) :
                /\ \A ij \in Idx(momentum_params[i].w.r, momentum_params[i].w.c) :
                      momentum_params'[i].w.at[ij] =
                          RDiv(RAdd(RMul(beta, momentum_params[i].w.at[ij]), One),
                               RSub(One, RPow(beta, batch_num)))
                /\ \A ij \in Idx(momentum_params[i].b.r, momentum_params[i].b.c) :
                      momentum_params'[i].b.at[ij] =
                          RDiv(RAdd(RMul(beta, momentum_params[i].b.at[ij]), One),
                               RSub(One, RPow(beta, batch_num)))]_vars

\* beta = 1/2, two batches processed: the bias has gone from 2 to 8/3
C6_Witness ==
    /\ cls = "Momentum"
    /\ beta = <<1, 2>>
    /\ ZeroGradients
    /\ layers # << >>
    /\ pc = "batch"
    /\ epoch = 0
    /\ batch_idx = 3
    /\ momentum_params[1].b.at[<<1, 1>>] = <<8, 3>>

(***************************************************************************)
(* C7.  SGD: while the gradient provider returns an all-zero gradient for  *)
(* every batch, no step of a train call after its initialization changes   *)
(* the parameters, so they are after an epoch what they were before it.    *)
(***************************************************************************)
C7_ZeroGradientKeepsParams ==
    [][(cls = "SGD" /\ pc # "idle" /\ ZeroGradients) =>
          network_params' = network_params]_vars

\* an epoch of several batches is over, lr is not zero, the parameters are the initial ones
C7_Witness ==
    /\ cls = "SGD"
    /\ ZeroGradients
    /\ layers = <<2, 1>>
    /\ lr # Zero
    /\ NumBatches >= 2
    /\ pc = "accuracy"
    /\ calls = 1
    /\ network_params = FreshParams

(***************************************************************************)
(* C8.  With an empty layer sequence or an input feature count <= 0 the    *)
(* train call fails at initialization: it creates no parameter, processes  *)
(* no batch and appends nothing to cost or accuracy.                       *)
(***************************************************************************)
C8_BadShapeAbortsTrain ==
    (ValidConfig /\ ~ValidShape) =>
        /\ network_params = << >>
        /\ pc # "batch"
        /\ cost = << >>
        /\ accuracy = << >>

(***************************************************************************)
(* C9.  The history is append-only and written at epoch boundaries: cost   *)
(* changes only by appending the accumulated loss once the batches of the  *)
(* epoch are exhausted, accuracy only by appending, right after that, the  *)
(* evaluation of the full dataset under the end-of-epoch parameters, which *)
(* completes the epoch; an epoch is completed in no other way; and always  *)
(* len(accuracy) <= len(cost) <= len(accuracy) + 1.                        *)
(***************************************************************************)
C9_HistoryAppendOnly ==
    /\ [](Len(accuracy) <= Len(cost) /\ Len(cost) <= Len(accuracy) + 1)
    /\ [][/\ \/ cost' = cost
             \/ pc = "batch" /\ ~AtBatch /\ cost' = Append(cost, loss) /\ pc' = "accuracy"
          /\ \/ accuracy' = accuracy
             \/ /\ pc = "accuracy"
                /\ Len(cost) = Len(accuracy) + 1
                /\ accuracy' = Append(accuracy, evaluate(inputs, outputs))
                /\ network_params' = network_params
                /\ epoch' = epoch + 1
          /\ epoch' = epoch + 1 => accuracy' # accuracy
          /\ AtBatch => (cost' = cost /\ accuracy' = accuracy)]_vars

\* second epoch: its cost is appended, its accuracy not yet
C9_Witness ==
    /\ pc = "accuracy"
    /\ epoch = 1
    /\ NumBatches >= 2
    /\ Len(cost) = 2
    /\ Len(accuracy) = 1

(***************************************************************************)
(* C10.  On entry to the epoch loop of any train call the parameter store  *)
(* holds exactly the freshly initialized entry of every layer, and for     *)
(* Momentum the velocities are one all-zero entry per layer.               *)
(***************************************************************************)
C10_TrainStartsFresh ==
    (ValidConfig /\ ValidShape /\ pc = "epoch" /\ epoch = 0) =>
        /\ network_params = FreshParams
        /\ cls = "Momentum" =>
              momentum_params =
                  [i \in 1..Len(layers) |->
                      [w |-> zeros_like(FreshParams[i].w), b |-> zeros_like(FreshParams[i].b)]]

====
